---- MODULE Spec2Model ----
(***************************************************************************)
(* Particle flow-field simulation: the Particle integrator                 *)
(* (src/src/core/Particle.ts), the ParticleSystem that owns the particles  *)
(* (src/unnamed/part_001) and the FlowField it steers them with            *)
(* (src/unnamed/part_000).                                                 *)
(*                                                                         *)
(* Numbers.  The program computes in floating point.  The model keeps      *)
(* every length, velocity, speed factor, alpha and hue as an integer count *)
(* of hundredths (1.0 is 100) and every product, quotient and square root  *)
(* is the exact real result cut toward zero to that grid.  Inside the      *)
(* FlowField, time, noise coordinates, noise values and angles count       *)
(* 1/10000; sin, cos and atan2 are rational approximations within 0.004,   *)
(* and one value, NaN, stands for every number that is not finite.         *)
(***************************************************************************)
EXTENDS Integers, Sequences, FiniteSets

\* ------------------------------------------------------------------------
\* Fixed-point arithmetic
\* ------------------------------------------------------------------------

\* Hundredths per unit.
One == 10 * 10

Abs(a) == IF a < 0 THEN -a ELSE a

\* Quotient cut toward zero (b > 0).
TruncDiv(a, b) == IF a >= 0 THEN a \div b ELSE -((-a) \div b)

\* Product of two fixed-point numbers.
Mul(a, b) == TruncDiv(a * b, One)

RECURSIVE SqrtSearch(_, _, _)
SqrtSearch(n, lo, hi) ==
    IF lo >= hi THEN lo
    ELSE LET mid == (lo + hi + 1) \div 2
         IN  IF mid * mid <= n THEN SqrtSearch(n, mid, hi)
                               ELSE SqrtSearch(n, lo, mid - 1)

\* Largest k with k*k <= n (n below 2^31, so k is at most 46340).
ISqrt(n) == SqrtSearch(n, 0, IF n < 46340 THEN n ELSE 46340)

\* ------------------------------------------------------------------------
\* Program constants (hundredths unless noted)
\* ------------------------------------------------------------------------

\* Particle.maxSpeed = 2
maxSpeed == 200
\* Particle.maxHistory = 20 (entries)
maxHistory == 20
\* const padding = 50
padding == 5000
\* const margin = 2
margin == 200
\* const damping = 0.7
damping == 70
\* force * 0.3
forceGain == 30
\* hue = speedRatio * 120
hueRange == 12000
\* constructor: hue = Math.random() * 360
hueInit == 36000

\* ------------------------------------------------------------------------
\* Bounds of the model
\* ------------------------------------------------------------------------

\* Operations of one run of the stand-alone particle.
MaxSteps == 30
\* Operations of that run whose inputs are chosen freely; later ones repeat
\* the last update's force and speed.
MaxPrefix == 2

\* Unit force vectors (cos a, sin a).
Forces ==
    { [x |-> One, y |-> 0], [x |-> -One, y |-> 0],
      [x |-> 60, y |-> 80], [x |-> -80, y |-> -60] }

\* Values of the speed multiplier: 0.6, 1 and 25.
Speeds == {60, One, 25 * One}

\* Results of Math.random(): 0 and 0.5.
RandomValues == {0, 50}

\* Surface sizes (width, height): 800x600, 60x40 and 3x3.
Sizes ==
    { [w |-> 800 * One, h |-> 600 * One], [w |-> 60 * One, h |-> 40 * One],
      [w |-> 3 * One, h |-> 3 * One] }

\* The surface at construction.
InitSize == [w |-> 800 * One, h |-> 600 * One]

\* Operations of one run of the ParticleSystem.
MaxOps == 3

\* Particle counts the control layer requests (int >= 0), and the negative
\* ones the code accepts as well.
Counts == {0, 1, 2}
NegativeCounts == {-1}

\* The Math.random() results (x, y, hue) of one new Particle in a system.
Draws == { [rx |-> 0, ry |-> 0, rh |-> 0], [rx |-> 50, ry |-> 50, rh |-> 50] }

\* Values the control layer gives trailAlpha (0.88, 0.5) and speed (0.6, 200).
TrailAlphas == {88, 50}
SystemSpeeds == {60, 200 * One}

\* The six mode tags.
Modes == {"flow", "galaxy", "vortex", "chaos", "wave", "magnetic"}

\* A tag outside the six (a mode button's data-mode is cast, not checked).
UnknownModes == {"spiral"}

\* Calls of one run of the field taken alone.
MaxFieldOps == 4

\* Values the control layer gives flowField.scale: 80 and 25.
FieldScales == {80 * One, 25 * One}

\* Points the field is queried at.
QueryPoints ==
    { [x |-> 400 * One, y |-> 300 * One], [x |-> 12345, y |-> 6789],
      [x |-> 799 * One, y |-> 2 * One], [x |-> 550 * One, y |-> 300 * One] }

\* Pointer positions the input layer reports.
MousePositions == { [x |-> 10 * One, y |-> 20 * One], [x |-> 400 * One, y |-> 300 * One] }

\* ------------------------------------------------------------------------
\* Particle (src/src/core/Particle.ts)
\* ------------------------------------------------------------------------

\* new Particle(x, y, width, height): the x, y arguments are not used; rx, ry
\* and rh are the three Math.random() results.
Particle_constructor(rx, ry, rh, width, height) ==
    [ x       |-> padding + Mul(rx, width - padding * 2),
      y       |-> padding + Mul(ry, height - padding * 2),
      vx      |-> 0,
      vy      |-> 0,
      width   |-> width,
      height  |-> height,
      hue     |-> Mul(rh, hueInit),
      history |-> << >> ]

\* vx*vx + vy*vy, the square of the speed (in 1/10000).
SpeedSq(p) == p.vx * p.vx + p.vy * p.vy

\* this.vx += force.x * 0.3; this.vy += force.y * 0.3
ApplyForce(p, force) ==
    [p EXCEPT !.vx = p.vx + Mul(force.x, forceGain),
              !.vy = p.vy + Mul(force.y, forceGain)]

\* One component of v / currentSpeed * maxSpeed.
Rescale(v, sq) ==
    LET k == ISqrt(((v * maxSpeed) * (v * maxSpeed)) \div sq)
    IN  IF v < 0 THEN -k ELSE k

\* Mutant: the speed limit is not applied.
ClampSpeed_off(p) == p

\* if (currentSpeed > maxSpeed) rescale the velocity to maxSpeed.
ClampSpeed(p) ==
    IF SpeedSq(p) > maxSpeed * maxSpeed
    THEN [p EXCEPT !.vx = Rescale(p.vx, SpeedSq(p)),
                   !.vy = Rescale(p.vy, SpeedSq(p))]
    ELSE p

\* Mutant: a full history drops the entry just pushed, not the oldest.
PushHistory_dropNewest(p) ==
    [p EXCEPT !.history = IF Len(p.history) >= maxHistory THEN p.history
                          ELSE Append(p.history, [x |-> p.x, y |-> p.y])]

\* Mutant: the oldest entry is not evicted.
PushHistory_noShift(p) ==
    [p EXCEPT !.history = Append(p.history, [x |-> p.x, y |-> p.y])]

\* history.push({x, y}); if (history.length > maxHistory) history.shift()
PushHistory(p) ==
    LET pushed == Append(p.history, [x |-> p.x, y |-> p.y])
    IN  [p EXCEPT !.history = IF Len(pushed) > maxHistory THEN Tail(pushed)
                                                           ELSE pushed]

\* this.x += this.vx * speed; this.y += this.vy * speed
Integrate(p, speed) ==
    [p EXCEPT !.x = p.x + Mul(p.vx, speed), !.y = p.y + Mul(p.vy, speed)]

\* The local `bounced` of handleBoundaries.
Bounced(p) ==
    \/ p.x < margin
    \/ p.x > p.width - margin
    \/ p.y < margin
    \/ p.y > p.height - margin

\* Mutant: a bounce turns the velocity back without damping it.
handleBoundaries_noDamping(p) ==
    LET nx  == IF p.x < margin THEN margin
               ELSE IF p.x > p.width - margin THEN p.width - margin ELSE p.x
        nvx == IF p.x < margin THEN Abs(p.vx)
               ELSE IF p.x > p.width - margin THEN -Abs(p.vx)
               ELSE p.vx
        ny  == IF p.y < margin THEN margin
               ELSE IF p.y > p.height - margin THEN p.height - margin ELSE p.y
        nvy == IF p.y < margin THEN Abs(p.vy)
               ELSE IF p.y > p.height - margin THEN -Abs(p.vy)
               ELSE p.vy
    IN  [p EXCEPT !.x = nx, !.vx = nvx, !.y = ny, !.vy = nvy,
                  !.history = IF Bounced(p) THEN << >> ELSE p.history]

\* Mutant: the far edges are tested against the bound, not bound - margin.
handleBoundaries_farEdge(p) ==
    LET nx  == IF p.x < margin THEN margin
               ELSE IF p.x > p.width THEN p.width - margin ELSE p.x
        nvx == IF p.x < margin THEN Mul(Abs(p.vx), damping)
               ELSE IF p.x > p.width THEN -Mul(Abs(p.vx), damping)
               ELSE p.vx
        ny  == IF p.y < margin THEN margin
               ELSE IF p.y > p.height THEN p.height - margin ELSE p.y
        nvy == IF p.y < margin THEN Mul(Abs(p.vy), damping)
               ELSE IF p.y > p.height THEN -Mul(Abs(p.vy), damping)
               ELSE p.vy
    IN  [p EXCEPT !.x = nx, !.vx = nvx, !.y = ny, !.vy = nvy,
                  !.history = IF Bounced(p) THEN << >> ELSE p.history]

\* Mutant: only a bounce on the x axis clears the history.
handleBoundaries_xOnly(p) ==
    LET nx  == IF p.x < margin THEN margin
               ELSE IF p.x > p.width - margin THEN p.width - margin ELSE p.x
        nvx == IF p.x < margin THEN Mul(Abs(p.vx), damping)
               ELSE IF p.x > p.width - margin THEN -Mul(Abs(p.vx), damping)
               ELSE p.vx
        ny  == IF p.y < margin THEN margin
               ELSE IF p.y > p.height - margin THEN p.height - margin ELSE p.y
        nvy == IF p.y < margin THEN Mul(Abs(p.vy), damping)
               ELSE IF p.y > p.height - margin THEN -Mul(Abs(p.vy), damping)
               ELSE p.vy
    IN  [p EXCEPT !.x = nx, !.vx = nvx, !.y = ny, !.vy = nvy,
                  !.history = IF p.x < margin \/ p.x > p.width - margin
                              THEN << >> ELSE p.history]

\* handleBoundaries(): clamp and reflect each axis, clear the history on a bounce.
handleBoundaries(p) ==
    LET nx  == IF p.x < margin THEN margin
               ELSE IF p.x > p.width - margin THEN p.width - margin ELSE p.x
        nvx == IF p.x < margin THEN Mul(Abs(p.vx), damping)
               ELSE IF p.x > p.width - margin THEN -Mul(Abs(p.vx), damping)
               ELSE p.vx
        ny  == IF p.y < margin THEN margin
               ELSE IF p.y > p.height - margin THEN p.height - margin ELSE p.y
        nvy == IF p.y < margin THEN Mul(Abs(p.vy), damping)
               ELSE IF p.y > p.height - margin THEN -Mul(Abs(p.vy), damping)
               ELSE p.vy
    IN  [p EXCEPT !.x = nx, !.vx = nvx, !.y = ny, !.vy = nvy,
                  !.history = IF Bounced(p) THEN << >> ELSE p.history]

\* const currentSpeed = Math.sqrt(vx*vx + vy*vy), taken before the clamp;
\* hue = currentSpeed / maxSpeed * 120.
HueOf(sq) == ISqrt(sq * (hueRange \div maxSpeed) * (hueRange \div maxSpeed))

\* The particle as it enters handleBoundaries.
Moved(p, force, speed) ==
    Integrate(PushHistory(ClampSpeed(ApplyForce(p, force))), speed)

\* Particle.update(force, speed)
Particle_update(p, force, speed) ==
    [handleBoundaries(Moved(p, force, speed))
        EXCEPT !.hue = HueOf(SpeedSq(ApplyForce(p, force)))]

\* Mutant: reset keeps the velocity.
Particle_reset_keepVelocity(p, rx, ry, width, height) ==
    [p EXCEPT !.x = padding + Mul(rx, width - padding * 2),
              !.y = padding + Mul(ry, height - padding * 2),
              !.history = << >>,
              !.width = width,
              !.height = height]

\* Particle.reset(width, height)
Particle_reset(p, rx, ry, width, height) ==
    [p EXCEPT !.x = padding + Mul(rx, width - padding * 2),
              !.y = padding + Mul(ry, height - padding * 2),
              !.vx = 0,
              !.vy = 0,
              !.history = << >>,
              !.width = width,
              !.height = height]

\* p.width = width; p.height = height (the body of resize's forEach)
Particle_setBounds(p, width, height) ==
    [p EXCEPT !.width = width, !.height = height]

\* ------------------------------------------------------------------------
\* FlowField (src/unnamed/part_000).  time, timeSpeed, the noise
\* coordinates, the noise values and the angles (radians) count 1/10000.
\* ------------------------------------------------------------------------

\* Ten-thousandths per unit.
Fine == One * One

\* Math.PI
PI == 31416

TwoPi == 2 * PI

\* A value that is no finite number: NaN, an infinity, or undefined where a
\* number is expected (arithmetic on undefined gives NaN).
NaN == 0 - 1024 * 1024 * 1024

Finite(a) == a # NaN

\* Quotient cut toward zero (b # 0).
Quot(a, b) == IF b > 0 THEN TruncDiv(a, b) ELSE -TruncDiv(a, -b)

\* a + b, a - b, a * k for an integer k, and the product of two numbers of
\* 1/10000: not finite as soon as an operand is not.
NAdd(a, b) == IF Finite(a) /\ Finite(b) THEN a + b ELSE NaN
NSub(a, b) == IF Finite(a) /\ Finite(b) THEN a - b ELSE NaN
NTimes(a, k) == IF Finite(a) THEN a * k ELSE NaN
NMul(a, b) == IF Finite(a) /\ Finite(b) THEN Quot(a * b, Fine) ELSE NaN

\* a / b for two numbers of hundredths, in 1/10000; x / 0 is an infinity
\* or NaN.
NDiv(a, b) ==
    IF Finite(a) /\ Finite(b) /\ b # 0 THEN Quot(a * Fine, b) ELSE NaN

\* Math.sqrt(dx * dx + dy * dy) for dx, dy in hundredths, to a tenth.
Hypot(dx, dy) ==
    10 * ISqrt(TruncDiv(dx, 10) * TruncDiv(dx, 10)
               + TruncDiv(dy, 10) * TruncDiv(dy, 10))

\* sin on [0, pi]: 16 x (pi - x) / (5 pi^2 - 4 x (pi - x)), exact at 0,
\* pi/2 and pi and within 0.002 between.
SinHalf(x) ==
    LET q == (x * (PI - x)) \div Fine
    IN  4 * ((4 * q * Fine) \div (5 * ((PI * PI) \div Fine) - 4 * q))

\* Math.sin(a)
Sin(a) ==
    IF ~Finite(a) THEN NaN
    ELSE LET r == a % TwoPi
         IN  IF r <= PI THEN SinHalf(r) ELSE -SinHalf(r - PI)

\* Math.cos(a)
Cos(a) == IF Finite(a) THEN Sin(a + PI \div 2) ELSE NaN

\* atan on [0, 1]: z (pi/4 + 0.273 (1 - z)), within 0.004.
AtanUnit(z) == Quot(z * (7854 + Quot(2730 * (Fine - z), Fine)), Fine)

\* Math.atan2(y, x), in (-pi, pi]
Atan2(y, x) ==
    IF x = 0 /\ y = 0 THEN 0
    ELSE LET ax == Abs(x)
             ay == Abs(y)
             base == IF ax >= ay THEN AtanUnit((ay * Fine) \div ax)
                     ELSE PI \div 2 - AtanUnit((ax * Fine) \div ay)
         IN  IF x >= 0 THEN (IF y >= 0 THEN base ELSE -base)
             ELSE (IF y >= 0 THEN PI - base ELSE -(PI - base))

\* Results of the 256 calls Math.floor(Math.random() * 256) of one
\* initPerlin(): a run in which every value comes once, and a run in which
\* values repeat.
ShuffledTable == [i \in 0..255 |-> (i * 37 + 11) % 256]
RepeatingTable == [i \in 0..255 |-> (i * i + 7 * i + 3) % 256]
RandomTables == {ShuffledTable, RepeatingTable}

\* initPerlin(): this.perm[i] = p[i & 255] for i < 512.  (gradP is filled
\* as well and never read.)
initPerlin(p) == [i \in 0..511 |-> p[i % 256]]

\* fade(t) = t * t * t * (t * (t * 6 - 15) + 10)
fade(t) == NMul(NMul(NMul(t, t), t), NMul(t, t * 6 - 15 * Fine) + 10 * Fine)

\* lerp(a, b, t) = (1 - t) * a + t * b
lerp(a, b, t) == NMul(Fine - t, a) + NMul(t, b)

\* grad(hash, x, y)
grad(hash, x, y) ==
    LET h == hash % 4
        u == IF h < 2 THEN x ELSE y
        v == IF h < 2 THEN y ELSE x
    IN  (IF h % 2 = 0 THEN u ELSE -u) + (IF (h \div 2) % 2 = 0 THEN v ELSE -v)

\* Math.floor(v) & 255 without the mask
Cell_unmasked(v) == IF Finite(v) THEN v \div Fine ELSE 0

\* Math.floor(v) & 255: the lattice cell of a noise coordinate; the bitwise
\* and turns a value that is not finite into 0.
Cell(v) == IF Finite(v) THEN (v \div Fine) % 256 ELSE 0

\* this.perm[i]: a read outside the array gives undefined
permAt(perm, i) == IF i \in DOMAIN perm THEN perm[i] ELSE NaN

\* The indices at which noise2D(x, y) reads this.perm, in the order of the
\* code: perm[X], perm[X + 1], perm[A], perm[A + 1], perm[B], perm[B + 1]
\* and the four corner reads perm[AA], perm[AB], perm[BA], perm[BB].
noise2D_reads(perm, x, y) ==
    LET X  == Cell(x)
        Y  == Cell(y)
        A  == NAdd(permAt(perm, X), Y)
        B  == NAdd(permAt(perm, X + 1), Y)
    IN  [ X  |-> X,  X1 |-> X + 1,
          A  |-> A,  A1 |-> NAdd(A, 1),
          B  |-> B,  B1 |-> NAdd(B, 1),
          AA |-> permAt(perm, A),
          AB |-> permAt(perm, NAdd(A, 1)),
          BA |-> permAt(perm, B),
          BB |-> permAt(perm, NAdd(B, 1)) ]

\* noise2D(x, y) over the table perm.  Math.floor of a value that is not
\* finite is masked to 0 and the fractional part is NaN, and so is the
\* result.
noise2D(perm, x, y) ==
    IF ~Finite(x) \/ ~Finite(y) THEN NaN
    ELSE LET X  == Cell(x)
             Y  == Cell(y)
             xf == x - (x \div Fine) * Fine
             yf == y - (y \div Fine) * Fine
             u  == fade(xf)
             v  == fade(yf)
             A  == perm[X] + Y
             AA == perm[A]
             AB == perm[A + 1]
             B  == perm[X + 1] + Y
             BA == perm[B]
             BB == perm[B + 1]
         IN  lerp(lerp(grad(perm[AA], xf, yf),
                       grad(perm[BA], xf - Fine, yf), u),
                  lerp(grad(perm[AB], xf, yf - Fine),
                       grad(perm[BB], xf - Fine, yf - Fine), u),
                  v)

\* new FlowField(width, height, mode), p the random results of initPerlin()
FlowField_constructor(w, h, mode, p) ==
    [ width        |-> w,
      height       |-> h,
      mode         |-> mode,
      scale        |-> 100 * One,
      time         |-> 0,
      timeSpeed    |-> 3,
      mouseX       |-> TruncDiv(w, 2),
      mouseY       |-> TruncDiv(h, 2),
      mouseRadius  |-> 150 * One,
      mouseForce   |-> 50,
      mousePressed |-> FALSE,
      perm         |-> initPerlin(p) ]

\* Mutant: chaos and vortex have each other's time speed.
modeSpeed_swapped(mode) ==
    CASE mode = "flow"     -> 3
      [] mode = "galaxy"   -> 1
      [] mode = "vortex"   -> 10
      [] mode = "chaos"    -> 5
      [] mode = "wave"     -> 2
      [] mode = "magnetic" -> 3
      [] OTHER             -> NaN

\* const modeSpeed = { flow: 0.0003, galaxy: 0.0001, ... }; modeSpeed[mode]
\* is undefined for any other tag.
modeSpeed(mode) ==
    CASE mode = "flow"     -> 3
      [] mode = "galaxy"   -> 1
      [] mode = "vortex"   -> 5
      [] mode = "chaos"    -> 10
      [] mode = "wave"     -> 2
      [] mode = "magnetic" -> 3
      [] OTHER             -> NaN

\* Mutant: update() advances time twice.
FlowField_update_twice(f) ==
    [f EXCEPT !.time = NAdd(NAdd(f.time, f.timeSpeed), f.timeSpeed)]

\* FlowField.update(): this.time += this.timeSpeed
FlowField_update(f) == [f EXCEPT !.time = NAdd(f.time, f.timeSpeed)]

\* FlowField.setMode(mode)
FlowField_setMode(f, mode) ==
    [f EXCEPT !.mode = mode, !.timeSpeed = modeSpeed(mode)]

\* FlowField.setMousePosition(x, y)
FlowField_setMousePosition(f, x, y) == [f EXCEPT !.mouseX = x, !.mouseY = y]

\* FlowField.setMousePressed(pressed)
FlowField_setMousePressed(f, pressed) == [f EXCEPT !.mousePressed = pressed]

\* Mutant: resize runs initPerlin() again.
FlowField_resize_reseed(f, w, h) ==
    [f EXCEPT !.width = w, !.height = h,
              !.mouseX = TruncDiv(w, 2), !.mouseY = TruncDiv(h, 2),
              !.perm = IF f.perm = initPerlin(ShuffledTable)
                       THEN initPerlin(RepeatingTable)
                       ELSE initPerlin(ShuffledTable)]

\* Mutant: resize releases the pointer as well.
FlowField_resize_release(f, w, h) ==
    [f EXCEPT !.width = w, !.height = h,
              !.mouseX = TruncDiv(w, 2), !.mouseY = TruncDiv(h, 2),
              !.mousePressed = FALSE]

\* FlowField.resize(width, height)
FlowField_resize(f, w, h) ==
    [f EXCEPT !.width = w, !.height = h,
              !.mouseX = TruncDiv(w, 2), !.mouseY = TruncDiv(h, 2)]

\* calculateGalaxyAngle(x, y)
calculateGalaxyAngle(f, x, y) ==
    LET dx == x - TruncDiv(f.width, 2)
        dy == y - TruncDiv(f.height, 2)
    IN  NAdd(Atan2(dy, dx) + Hypot(dx, dy),
             NMul(noise2D(f.perm, NDiv(x, f.scale), NDiv(y, f.scale)),
                  Fine \div 2))

\* calculateVortexAngle(x, y)
calculateVortexAngle(f, x, y) ==
    LET vdx == x - TruncDiv(f.width, 2)
        vdy == y - TruncDiv(f.height, 2)
        half == Mul(f.scale, 50)
    IN  NAdd(Atan2(vdy, vdx) + PI \div 2 + Hypot(vdx, vdy) \div 2,
             NMul(noise2D(f.perm, NDiv(x, half),
                          NAdd(NDiv(y, half), f.time)),
                  15 * (Fine \div 10)))

\* calculateChaosAngle(x, y)
calculateChaosAngle(f, x, y) ==
    LET angle1 == NTimes(NMul(noise2D(f.perm, NDiv(x, Mul(f.scale, 30)),
                                      NAdd(NDiv(y, Mul(f.scale, 30)),
                                           NTimes(f.time, 2))),
                              PI), 4)
        angle2 == NTimes(NMul(noise2D(f.perm, NDiv(x, Mul(f.scale, 50)),
                                      NSub(NDiv(y, Mul(f.scale, 50)),
                                           f.time)),
                              PI), 2)
    IN  NAdd(angle1, angle2)

\* calculateWaveAngle(x, y): waveFreq is 0.01, so a length in hundredths is
\* its phase in 1/10000 radian; waveSpeed = time * 200 in hundredths.
calculateWaveAngle(f, x, y) ==
    LET waveSpeed == NTimes(f.time, 2)
        slower == IF Finite(waveSpeed) THEN Mul(waveSpeed, 70) ELSE NaN
        wave1 == NMul(Sin(NAdd(y, waveSpeed)), PI)
        wave2 == NMul(Sin(NSub(x, slower)), PI)
        halfTime == IF Finite(f.time) THEN Quot(f.time, 2) ELSE NaN
    IN  NAdd(NAdd(wave1, wave2),
             NMul(noise2D(f.perm, NDiv(x, f.scale),
                          NAdd(NDiv(y, f.scale), halfTime)),
                  3 * (Fine \div 10)))

\* calculateMagneticAngle(x, y); the forces are in hundredths.
calculateMagneticAngle(f, x, y) ==
    LET dx1 == x - Mul(f.width, 30)
        dy1 == y - Mul(f.height, 50)
        dist1 == Hypot(dx1, dy1) + One
        angle1 == Atan2(dy1, dx1)
        force1 == Quot(100 * One * One, dist1)
        dx2 == x - Mul(f.width, 70)
        dy2 == y - Mul(f.height, 50)
        dist2 == Hypot(dx2, dy2) + One
        angle2 == Atan2(dy2, dx2)
        force2 == Quot(100 * One * One, dist2)
        forceX == Quot(Cos(angle1) * force1, Fine)
                  - Quot(Cos(angle2 + PI) * force2, Fine)
        forceY == Quot(Sin(angle1) * force1, Fine)
                  - Quot(Sin(angle2 + PI) * force2, Fine)
    IN  NAdd(Atan2(forceY, forceX),
             NMul(noise2D(f.perm, NDiv(x, f.scale * 2),
                          NAdd(NDiv(y, f.scale * 2), f.time)),
                  Fine \div 2))

\* Mutant: a tag outside the six modes is steered as "flow".
calculateAngle_noDefault(f, x, y) ==
    IF f.mode = "galaxy" THEN calculateGalaxyAngle(f, x, y)
    ELSE NTimes(NMul(noise2D(f.perm, NDiv(x, f.scale),
                             NAdd(NDiv(y, f.scale), f.time)), PI), 2)

\* calculateAngle(x, y): switch (this.mode), default: return 0
calculateAngle(f, x, y) ==
    CASE f.mode = "flow" ->
             NTimes(NMul(noise2D(f.perm, NDiv(x, f.scale),
                                 NAdd(NDiv(y, f.scale), f.time)), PI), 2)
      [] f.mode = "galaxy"   -> calculateGalaxyAngle(f, x, y)
      [] f.mode = "vortex"   -> calculateVortexAngle(f, x, y)
      [] f.mode = "chaos"    -> calculateChaosAngle(f, x, y)
      [] f.mode = "wave"     -> calculateWaveAngle(f, x, y)
      [] f.mode = "magnetic" -> calculateMagneticAngle(f, x, y)
      [] OTHER               -> 0

\* const mixFactor = influence * this.mouseForce, with
\* influence = 1 - distToMouse / this.mouseRadius
mixFactor(f, x, y) ==
    LET distToMouse == Hypot(x - f.mouseX, y - f.mouseY)
        influence == Fine - NDiv(distToMouse, f.mouseRadius)
    IN  NMul(influence, f.mouseForce * One)

\* Mutant: the pointer acts whether it is pressed or not.
applyMouseInteraction_unpressed(f, x, y, angle) ==
    LET dx == x - f.mouseX
        dy == y - f.mouseY
    IN  IF Hypot(dx, dy) < f.mouseRadius
        THEN NAdd(NMul(angle, Fine - mixFactor(f, x, y)),
                  NMul(Atan2(dy, dx) + PI, mixFactor(f, x, y)))
        ELSE angle

\* applyMouseInteraction(x, y, angle)
applyMouseInteraction(f, x, y, angle) ==
    IF ~f.mousePressed THEN angle
    ELSE LET dx == x - f.mouseX
             dy == y - f.mouseY
             distToMouse == Hypot(dx, dy)
         IN  IF distToMouse < f.mouseRadius
             THEN LET mouseAngle == Atan2(dy, dx) + PI
                  IN  NAdd(NMul(angle, Fine - mixFactor(f, x, y)),
                           NMul(mouseAngle, mixFactor(f, x, y)))
             ELSE angle

\* A number of 1/10000 in hundredths.
Hundredths(a) == IF Finite(a) THEN TruncDiv(a, One) ELSE NaN

\* FlowField.getVector(x, y): (cos a, sin a) for the angle a of the mode's
\* formula, turned toward the pointer while it is pressed and near.
getVector(f, x, y) ==
    LET angle == applyMouseInteraction(f, x, y, calculateAngle(f, x, y))
    IN  [x |-> Hundredths(Cos(angle)), y |-> Hundredths(Sin(angle))]

\* ------------------------------------------------------------------------
\* The legacy FlowField (src/src/FlowField.js), same units
\* ------------------------------------------------------------------------

\* constructor(width, height, mode), p the random results of initPerlin()
JsFlowField_constructor(w, h, mode, p) ==
    [ width        |-> w,
      height       |-> h,
      mode         |-> mode,
      scale        |-> 100 * One,
      time         |-> 0,
      timeSpeed    |-> 3,
      mouseX       |-> TruncDiv(w, 2),
      mouseY       |-> TruncDiv(h, 2),
      mouseRadius  |-> 150 * One,
      mouseForce   |-> 50,
      mousePressed |-> FALSE,
      perm         |-> [i \in 0..511 |-> p[i % 256]] ]

\* update(): this.time += this.timeSpeed
JsFlowField_update(f) == [f EXCEPT !.time = NAdd(f.time, f.timeSpeed)]

\* setMode(mode): switch (mode) { case "galaxy": ... default: 0.0003 }
JsFlowField_setMode(f, mode) ==
    [f EXCEPT !.mode = mode,
              !.timeSpeed = CASE mode = "galaxy"   -> 1
                              [] mode = "vortex"   -> 5
                              [] mode = "chaos"    -> 10
                              [] mode = "wave"     -> 2
                              [] mode = "magnetic" -> 3
                              [] OTHER             -> 3]

\* setMousePosition(x, y)
JsFlowField_setMousePosition(f, x, y) == [f EXCEPT !.mouseX = x, !.mouseY = y]

\* setMousePressed(pressed)
JsFlowField_setMousePressed(f, pressed) == [f EXCEPT !.mousePressed = pressed]

\* resize(width, height)
JsFlowField_resize(f, w, h) ==
    [f EXCEPT !.width = w, !.height = h,
              !.mouseX = TruncDiv(w, 2), !.mouseY = TruncDiv(h, 2)]

\* The angle getVector(x, y) turns into a vector: the switch over this.mode
\* (its cases hold, inline, the statements of the core's calculate...Angle
\* functions) followed by the pointer block.
JsAngle(f, x, y) ==
    LET angle ==
          CASE f.mode = "flow" ->
                   NTimes(NMul(noise2D(f.perm, NDiv(x, f.scale),
                                       NAdd(NDiv(y, f.scale), f.time)), PI), 2)
            [] f.mode = "galaxy"   -> calculateGalaxyAngle(f, x, y)
            [] f.mode = "vortex"   -> calculateVortexAngle(f, x, y)
            [] f.mode = "chaos"    -> calculateChaosAngle(f, x, y)
            [] f.mode = "wave"     -> calculateWaveAngle(f, x, y)
            [] f.mode = "magnetic" -> calculateMagneticAngle(f, x, y)
            [] OTHER               -> 0
        dx == x - f.mouseX
        dy == y - f.mouseY
        distToMouse == Hypot(dx, dy)
    IN  IF f.mousePressed /\ distToMouse < f.mouseRadius
        THEN LET influence == Fine - NDiv(distToMouse, f.mouseRadius)
                 mouseAngle == Atan2(dy, dx) + PI
                 mix == NMul(influence, f.mouseForce * One)
             IN  NAdd(NMul(angle, Fine - mix), NMul(mouseAngle, mix))
        ELSE angle

\* getVector(x, y) of the legacy FlowField
JsGetVector(f, x, y) ==
    [x |-> Hundredths(Cos(JsAngle(f, x, y))),
     y |-> Hundredths(Sin(JsAngle(f, x, y)))]

\* ------------------------------------------------------------------------
\* ParticleSystem (src/unnamed/part_001)
\* ------------------------------------------------------------------------

\* new Particle(x, y, this.width, this.height) for one set of random results.
NewParticle(d, w, h) == Particle_constructor(d.rx, d.ry, d.rh, w, h)

\* The particles pushed by a creation loop, one per entry of draws.
Created(draws, w, h) == [i \in 1..Len(draws) |-> NewParticle(draws[i], w, h)]

\* Sequences of n random results.
DrawSeqs(n) == IF n <= 0 THEN { << >> } ELSE [1..n -> Draws]

\* initParticles(): particleCount new particles
initParticles(count, draws, w, h) == Created(draws, w, h)

\* Array.prototype.slice(0, end): a negative end counts from the back.
Slice(seq, end) ==
    LET stop == IF end >= 0 THEN (IF end < Len(seq) THEN end ELSE Len(seq))
                ELSE (IF Len(seq) + end > 0 THEN Len(seq) + end ELSE 0)
    IN  SubSeq(seq, 1, stop)

\* Mutant: the bound of the slice is off by one.
setParticleCount_offByOne(ps, have, count, draws, w, h) ==
    IF count > have THEN ps \o Created(draws, w, h)
    ELSE IF count < have THEN Slice(ps, count + 1)
    ELSE ps

\* Mutant: a call that changes nothing in the count resets the particles.
setParticleCount_refresh(ps, have, count, draws, w, h) ==
    IF count > have THEN ps \o Created(draws, w, h)
    ELSE IF count < have THEN Slice(ps, count)
    ELSE [i \in 1..Len(ps) |-> Particle_reset(ps[i], 0, 0, w, h)]

\* setParticleCount(count): the new value of this.particles, given the
\* particles ps, this.particleCount (have) and the random results of the
\* particles to add.
setParticleCount(ps, have, count, draws, w, h) ==
    IF count > have THEN ps \o Created(draws, w, h)
    ELSE IF count < have THEN Slice(ps, count)
    ELSE ps

\* updateFadeOverlay(): the alpha the fade rectangle is filled with
updateFadeOverlay(alpha) == One - alpha

\* Mutant: resize leaves the particles' stored bounds as they are.
resizeParticles_skip(ps, w, h) == ps

\* this.particles.forEach((p) => { p.width = width; p.height = height })
resizeParticles(ps, w, h) ==
    [i \in 1..Len(ps) |-> Particle_setBounds(ps[i], w, h)]

\* this.particles.forEach((p) => p.reset(this.width, this.height))
resetParticles(ps, draws, w, h) ==
    [i \in 1..Len(ps) |-> Particle_reset(ps[i], draws[i].rx, draws[i].ry, w, h)]

\* renderParticles(): each particle advanced by the force the field f
\* gives at its position
renderParticles(f, ps, spd) ==
    [i \in 1..Len(ps) |->
        Particle_update(ps[i], getVector(f, ps[i].x, ps[i].y), spd)]

\* Mutant: the trail line is drawn whatever its length.
TrailSegment_anyLength(p) ==
    IF Len(p.history) > 0
    THEN << [from |-> p.history[Len(p.history)], to |-> [x |-> p.x, y |-> p.y]] >>
    ELSE << >>

\* The line renderParticles() strokes for an advanced particle p: from the
\* last history entry to the position when there is an entry less than 50
\* away; << >> when no line is stroked.
TrailSegment(p) ==
    IF Len(p.history) > 0
    THEN LET prev == p.history[Len(p.history)]
             dx == p.x - prev.x
             dy == p.y - prev.y
             dist == ISqrt(dx * dx + dy * dy)
         IN  IF dist < 50 * One
             THEN << [from |-> prev, to |-> [x |-> p.x, y |-> p.y]] >>
             ELSE << >>
    ELSE << >>

\* Mutant: the forces are queried before the field's time advances.
fieldAtRender_stale(f) == f

\* update(): this.flowField.update() comes before this.renderParticles(),
\* so the forces are queried from the advanced field
fieldAtRender(f) == FlowField_update(f)

\* ------------------------------------------------------------------------
\* State
\* ------------------------------------------------------------------------

VARIABLES
    pt,        \* a stand-alone Particle
    ptLast,    \* the last operation on pt and what it did
    ptInput,   \* the force and speed of the last update of pt
    ptSteps    \* operations on pt so far

VARIABLES
    width,         \* ParticleSystem.width
    height,        \* ParticleSystem.height
    particleCount, \* ParticleSystem.particleCount
    particles,     \* ParticleSystem.particles
    speed,         \* ParticleSystem.speed
    trailAlpha,    \* ParticleSystem.trailAlpha
    fadeAlpha,     \* the alpha of the rectangle held by fadeOverlay
    flowField,     \* ParticleSystem.flowField
    sysLast,       \* the last operation on the system and what it did
    anyNegative,   \* whether a negative count has been requested
    sysOps         \* operations on the system so far

VARIABLES
    ffLast,    \* the last call on the field taken alone and what it returned
    ffOps,     \* calls on the field taken alone so far
    jsField,   \* a legacy FlowField given the calls the field is given
    noiseLast  \* the last noise2D evaluated alone: its input and table reads

ptVars == <<pt, ptLast, ptInput, ptSteps>>

sysVars ==
    <<width, height, particleCount, particles, speed, trailAlpha, fadeAlpha,
      flowField, sysLast, anyNegative, sysOps>>

ffVars == <<ffLast, ffOps, jsField, noiseLast>>

vars == <<ptVars, sysVars, ffVars>>

NoInput == [force |-> [x |-> 0, y |-> 0], speed |-> -1]

\* What an operation other than update records.
PtNote(op) ==
    [op |-> op, bounced |-> FALSE, clamped |-> FALSE, prevLen |-> Len(pt.history),
     cvx |-> pt.vx, cvy |-> pt.vy, mx |-> pt.x, my |-> pt.y]

\* A constructed particle.
PtInit ==
    /\ \E rx \in RandomValues, ry \in RandomValues, rh \in RandomValues :
           pt = Particle_constructor(rx, ry, rh, InitSize.w, InitSize.h)
    /\ ptLast = [op |-> "new", bounced |-> FALSE, clamped |-> FALSE,
                 prevLen |-> 0, cvx |-> 0, cvy |-> 0, mx |-> 0, my |-> 0]
    /\ ptInput = NoInput
    /\ ptSteps = 0

\* What a call on the field taken alone records: its name, its arguments
\* (a mode tag, a point), the vector it returned, and whether it is a
\* getVector that repeats the point of a getVector just before.
FfNote(op, tag, x, y, result) ==
    [op |-> op, tag |-> tag, x |-> x, y |-> y, result |-> result,
     again |-> (op = "getVector" /\ ffLast.op = "getVector"
                /\ ffLast.x = x /\ ffLast.y = y)]

NoVector == [x |-> 0, y |-> 0]

\* noise2D has not been evaluated alone.
NoNoise == [op |-> "new", x |-> 0, y |-> 0, reads |-> << >>]

\* What jsField holds where no legacy FlowField is constructed.
NoField == [mode |-> "none"]

\* The field has not been called on its own.
FfIdle ==
    /\ jsField = NoField
    /\ noiseLast = NoNoise
    /\ ffLast = [op |-> "new", tag |-> "", x |-> 0, y |-> 0,
                 result |-> NoVector, again |-> FALSE]
    /\ ffOps = 0

\* new ParticleSystem(app, count) on a surface of InitSize, the field's
\* initPerlin() drawing one of tables.
SysInitFrom(count, tables) ==
    /\ width = InitSize.w
    /\ height = InitSize.h
    /\ particleCount = count
    /\ \E p \in tables :
           flowField = FlowField_constructor(InitSize.w, InitSize.h, "flow", p)
    /\ \E draws \in DrawSeqs(count) :
           particles = initParticles(count, draws, InitSize.w, InitSize.h)
    /\ speed = One
    /\ trailAlpha = 95
    /\ fadeAlpha = updateFadeOverlay(95)
    /\ sysLast = [op |-> "new", count |-> count, rendered |-> -1,
                  repeated |-> FALSE, mode |-> "", queried |-> -1,
                  lines |-> << >>]
    /\ anyNegative = FALSE
    /\ sysOps = 0

SysInitWith(count) == SysInitFrom(count, RandomTables)

\* What a system operation records: its name, the count it was given, the
\* alpha of the fade rectangle it rendered (-1: none), whether it is a
\* setParticleCount that repeats the count of a setParticleCount just
\* before, the mode tag it was given, the field time its force queries saw
\* (-1: none) and, per particle, the trail line it stroked.
SysNote(op, count, rendered) ==
    [op |-> op, count |-> count, rendered |-> rendered,
     repeated |-> (op = "setParticleCount" /\ sysLast.op = "setParticleCount"
                   /\ sysLast.count = count),
     mode |-> "", queried |-> -1, lines |-> << >>]

\* ---------------- the stand-alone particle ----------------

\* particle.update(force, speed).  ptLast records whether the call clamped
\* the position (bounced), whether it rescaled the velocity (clamped), the
\* velocity after the clamp step, the history length before the call and the
\* position after the integration step (before the boundary handling).
PtUpdate ==
    \E force \in Forces, spd \in Speeds :
        /\ ptSteps < MaxSteps
        /\ ptSteps < MaxPrefix \/ ptInput = [force |-> force, speed |-> spd]
        /\ pt' = Particle_update(pt, force, spd)
        /\ ptLast' =
             LET m == Moved(pt, force, spd)
                 c == ClampSpeed(ApplyForce(pt, force))
             IN  [op      |-> "update",
                  bounced |-> handleBoundaries(m).x # m.x \/ handleBoundaries(m).y # m.y,
                  clamped |-> c # ApplyForce(pt, force),
                  prevLen |-> Len(pt.history),
                  cvx     |-> c.vx,
                  cvy     |-> c.vy,
                  mx      |-> m.x,
                  my      |-> m.y]
        /\ ptInput' = [force |-> force, speed |-> spd]
        /\ ptSteps' = ptSteps + 1
        /\ UNCHANGED <<sysVars, ffVars>>

\* particle.reset(width, height)
PtReset ==
    \E rx \in RandomValues, ry \in RandomValues, s \in Sizes :
        /\ ptSteps < MaxPrefix
        /\ pt' = Particle_reset(pt, rx, ry, s.w, s.h)
        /\ ptLast' = PtNote("reset")
        /\ ptSteps' = ptSteps + 1
        /\ UNCHANGED <<ptInput, sysVars, ffVars>>

\* p.width = width; p.height = height
PtResize ==
    \E s \in Sizes :
        /\ ptSteps < MaxPrefix
        /\ pt' = Particle_setBounds(pt, s.w, s.h)
        /\ ptLast' = PtNote("resize")
        /\ ptSteps' = ptSteps + 1
        /\ UNCHANGED <<ptInput, sysVars, ffVars>>

InitParticle == PtInit /\ SysInitFrom(0, {ShuffledTable}) /\ FfIdle

NextParticle == PtUpdate \/ PtReset \/ PtResize

SpecParticle == InitParticle /\ [][NextParticle]_vars

\* ---------------- the ParticleSystem ----------------

\* Mutant: particleCount is left as it was when the collection shrinks.
nextParticleCount_stale(have, count) == IF count < have THEN have ELSE count

\* this.particleCount = count
nextParticleCount(have, count) == count

\* ParticleSystem.update(): advance the field's time, render the fade
\* overlay, then advance every particle by the force queried at its position.
Update ==
    /\ sysOps < MaxOps
    /\ flowField' = FlowField_update(flowField)
    /\ particles' = renderParticles(fieldAtRender(flowField), particles, speed)
    /\ sysLast' =
         [SysNote("update", 0, fadeAlpha) EXCEPT
             !.queried = fieldAtRender(flowField).time,
             !.lines = [i \in 1..Len(particles) |-> TrailSegment(particles'[i])]]
    /\ sysOps' = sysOps + 1
    /\ UNCHANGED <<width, height, particleCount, speed, trailAlpha, fadeAlpha,
                   anyNegative, ptVars, ffVars>>

\* ParticleSystem.setParticleCount(count)
SetCount(count) ==
    /\ sysOps < MaxOps
    /\ \E draws \in DrawSeqs(count - particleCount) :
           particles' = setParticleCount(particles, particleCount, count, draws,
                                         width, height)
    /\ particleCount' = nextParticleCount(particleCount, count)
    /\ anyNegative' = (anyNegative \/ count < 0)
    /\ sysLast' = SysNote("setParticleCount", count, -1)
    /\ sysOps' = sysOps + 1
    /\ UNCHANGED <<width, height, speed, trailAlpha, fadeAlpha, flowField, ptVars,
                   ffVars>>

\* setParticleCount with a count the control layer's contract allows
SetParticleCount == \E count \in Counts : SetCount(count)

\* setParticleCount with a negative count
SetNegativeParticleCount == \E count \in NegativeCounts : SetCount(count)

\* ParticleSystem.reset()
Reset ==
    /\ sysOps < MaxOps
    /\ \E draws \in DrawSeqs(Len(particles)) :
           particles' = resetParticles(particles, draws, width, height)
    /\ sysLast' = SysNote("reset", 0, -1)
    /\ sysOps' = sysOps + 1
    /\ UNCHANGED <<width, height, particleCount, speed, trailAlpha, fadeAlpha,
                   flowField, anyNegative, ptVars, ffVars>>

\* ParticleSystem.resize(width, height)
Resize ==
    \E s \in Sizes :
        /\ sysOps < MaxOps
        /\ width' = s.w
        /\ height' = s.h
        /\ fadeAlpha' = updateFadeOverlay(trailAlpha)
        /\ flowField' = FlowField_resize(flowField, s.w, s.h)
        /\ particles' = resizeParticles(particles, s.w, s.h)
        /\ sysLast' = SysNote("resize", 0, -1)
        /\ sysOps' = sysOps + 1
        /\ UNCHANGED <<particleCount, speed, trailAlpha, anyNegative, ptVars, ffVars>>

\* particleSystem.trailAlpha = value (the trail slider)
SetTrailAlpha ==
    \E value \in TrailAlphas :
        /\ sysOps < MaxOps
        /\ trailAlpha' = value
        /\ sysLast' = SysNote("trailAlpha", 0, -1)
        /\ sysOps' = sysOps + 1
        /\ UNCHANGED <<width, height, particleCount, particles, speed, fadeAlpha,
                       flowField, anyNegative, ptVars, ffVars>>

\* particleSystem.speed = value (the speed slider)
SetSpeed ==
    \E value \in SystemSpeeds :
        /\ sysOps < MaxOps
        /\ speed' = value
        /\ sysLast' = SysNote("speed", 0, -1)
        /\ sysOps' = sysOps + 1
        /\ UNCHANGED <<width, height, particleCount, particles, trailAlpha,
                       fadeAlpha, flowField, anyNegative, ptVars, ffVars>>

\* ParticleSystem.setMode(mode)
SetMode ==
    \E mode \in Modes :
        /\ sysOps < MaxOps
        /\ flowField' = FlowField_setMode(flowField, mode)
        /\ sysLast' = [SysNote("setMode", 0, -1) EXCEPT !.mode = mode]
        /\ sysOps' = sysOps + 1
        /\ UNCHANGED <<width, height, particleCount, particles, speed, trailAlpha,
                       fadeAlpha, anyNegative, ptVars, ffVars>>

\* ParticleSystem.setMousePosition(x, y)
SetMousePosition ==
    \E m \in MousePositions :
        /\ sysOps < MaxOps
        /\ flowField' = FlowField_setMousePosition(flowField, m.x, m.y)
        /\ sysLast' = SysNote("setMousePosition", 0, -1)
        /\ sysOps' = sysOps + 1
        /\ UNCHANGED <<width, height, particleCount, particles, speed, trailAlpha,
                       fadeAlpha, anyNegative, ptVars, ffVars>>

\* ParticleSystem.setMousePressed(pressed)
SetMousePressed ==
    \E pressed \in BOOLEAN :
        /\ sysOps < MaxOps
        /\ flowField' = FlowField_setMousePressed(flowField, pressed)
        /\ sysLast' = SysNote("setMousePressed", 0, -1)
        /\ sysOps' = sysOps + 1
        /\ UNCHANGED <<width, height, particleCount, particles, speed, trailAlpha,
                       fadeAlpha, anyNegative, ptVars, ffVars>>

\* particleSystem.flowField.scale = value (the scale slider)
SetScale ==
    \E value \in FieldScales :
        /\ sysOps < MaxOps
        /\ flowField' = [flowField EXCEPT !.scale = value]
        /\ sysLast' = SysNote("scale", 0, -1)
        /\ sysOps' = sysOps + 1
        /\ UNCHANGED <<width, height, particleCount, particles, speed, trailAlpha,
                       fadeAlpha, anyNegative, ptVars, ffVars>>

\* The stand-alone particle of a system run: constructed and left alone.
PtIdle ==
    /\ pt = Particle_constructor(0, 0, 0, InitSize.w, InitSize.h)
    /\ ptLast = [op |-> "new", bounced |-> FALSE, clamped |-> FALSE,
                 prevLen |-> 0, cvx |-> 0, cvy |-> 0, mx |-> 0, my |-> 0]
    /\ ptInput = NoInput
    /\ ptSteps = 0

Init == PtIdle /\ FfIdle /\ \E count \in Counts : SysInitWith(count)

Next ==
    \/ Update
    \/ SetParticleCount
    \/ Reset
    \/ Resize
    \/ SetTrailAlpha
    \/ SetSpeed
    \/ SetMode
    \/ SetMousePosition
    \/ SetMousePressed
    \/ SetScale

\* The calls the control layer's contract allows (counts >= 0).
Spec == Init /\ [][Next]_vars

\* ---------------- the FlowField taken alone ----------------

\* Mutant: a query advances the field's time.
getVector_field_ticking(f, x, y) == FlowField_update(f)

\* What getVector(x, y) leaves of the field: it assigns no field.
getVector_field(f, x, y) == f

FieldStep(op, tag, x, y, result) ==
    /\ ffOps < MaxFieldOps
    /\ ffLast' = FfNote(op, tag, x, y, result)
    /\ ffOps' = ffOps + 1
    /\ UNCHANGED <<width, height, particleCount, particles, speed, trailAlpha,
                   fadeAlpha, sysLast, anyNegative, sysOps, ptVars,
                   noiseLast>>

\* flowField.update()
FieldUpdate ==
    /\ flowField' = FlowField_update(flowField)
    /\ jsField' = JsFlowField_update(jsField)
    /\ FieldStep("update", "", 0, 0, NoVector)

\* flowField.setMode(mode) with a tag
FieldSetTag(mode) ==
    /\ flowField' = FlowField_setMode(flowField, mode)
    /\ jsField' = JsFlowField_setMode(jsField, mode)
    /\ FieldStep("setMode", mode, 0, 0, NoVector)

\* flowField.setMode(mode) with one of the six tags
FieldSetMode == \E mode \in Modes : FieldSetTag(mode)

\* flowField.setMode(mode) with a tag outside the six
FieldSetUnknownMode == \E mode \in UnknownModes : FieldSetTag(mode)

\* flowField.setMousePosition(x, y)
FieldSetMousePosition ==
    \E m \in MousePositions :
        /\ flowField' = FlowField_setMousePosition(flowField, m.x, m.y)
        /\ jsField' = JsFlowField_setMousePosition(jsField, m.x, m.y)
        /\ FieldStep("setMousePosition", "", m.x, m.y, NoVector)

\* flowField.setMousePressed(pressed)
FieldSetMousePressed ==
    \E pressed \in BOOLEAN :
        /\ flowField' = FlowField_setMousePressed(flowField, pressed)
        /\ jsField' = JsFlowField_setMousePressed(jsField, pressed)
        /\ FieldStep("setMousePressed", "", 0, 0, NoVector)

\* flowField.resize(width, height)
FieldResize ==
    \E s \in Sizes :
        /\ flowField' = FlowField_resize(flowField, s.w, s.h)
        /\ jsField' = JsFlowField_resize(jsField, s.w, s.h)
        /\ FieldStep("resize", "", s.w, s.h, NoVector)

\* particleSystem.flowField.scale = value (the scale slider)
FieldSetScale ==
    \E value \in FieldScales :
        /\ flowField' = [flowField EXCEPT !.scale = value]
        /\ jsField' = [jsField EXCEPT !.scale = value]
        /\ FieldStep("scale", "", 0, 0, NoVector)

\* flowField.getVector(x, y)
FieldGetVector ==
    \E q \in QueryPoints :
        /\ flowField' = getVector_field(flowField, q.x, q.y)
        /\ jsField' = jsField
        /\ FieldStep("getVector", "", q.x, q.y, getVector(flowField, q.x, q.y))

\* Both implementations constructed on InitSize with the same noise table.
InitField ==
    /\ PtIdle
    /\ ffLast = [op |-> "new", tag |-> "", x |-> 0, y |-> 0,
                 result |-> NoVector, again |-> FALSE]
    /\ ffOps = 0
    /\ noiseLast = NoNoise
    /\ \E p \in RandomTables :
           /\ SysInitFrom(0, {p})
           /\ jsField = JsFlowField_constructor(InitSize.w, InitSize.h, "flow", p)

NextField ==
    \/ FieldUpdate
    \/ FieldSetMode
    \/ FieldSetMousePosition
    \/ FieldSetMousePressed
    \/ FieldResize
    \/ FieldSetScale
    \/ FieldGetVector

\* The calls the control layer's contract allows (the six mode tags).
SpecField == InitField /\ [][NextField]_vars

NextFieldAnyTag == NextField \/ FieldSetUnknownMode

\* The calls the code accepts: setMode with any tag.
SpecFieldAnyTag == InitField /\ [][NextFieldAnyTag]_vars

NextAnyCount == Next \/ SetNegativeParticleCount

\* The calls the code accepts: setParticleCount with any integer.
SpecAnyCount == Init /\ [][NextAnyCount]_vars

\* ------------------------------------------------------------------------
\* Claims about the Particle (checked under SpecParticle)
\* ------------------------------------------------------------------------

\* C1: in every state reached by update, reset and resize from construction,
\* the particle's speed sqrt(vx^2 + vy^2) is at most maxSpeed.
C1_SpeedWithinMax == SpeedSq(pt) <= maxSpeed * maxSpeed

\* C1 witness: an update that rescaled a velocity with two non-zero components.
C1_Witness ==
    /\ ptLast.op = "update"
    /\ ptLast.clamped
    /\ pt.vx # 0
    /\ pt.vy # 0

C6_HistoryBounded == Len(pt.history) <= maxHistory

\* C6 witness: an update that pushed onto a full history and evicted the oldest.
C6_Witness ==
    /\ ptLast.op = "update"
    /\ ptLast.prevLen = maxHistory
    /\ Len(pt.history) = maxHistory

\* C7: after an update the history is empty exactly when that update clamped
\* the position on some axis.
C7_HistoryEmptyIffBounced ==
    ptLast.op = "update" => ((pt.history = << >>) <=> ptLast.bounced)

\* C7 witness: a bounce that cleared a non-empty history.
C7_Witness ==
    /\ ptLast.op = "update"
    /\ ptLast.bounced
    /\ ptLast.prevLen > 0
    /\ pt.history = << >>

\* C10 as stated: after every update the hue lies in [0, 120] and is
\* (|v| / maxSpeed) * 120 for the velocity the particle holds after the clamp.
C10_HueFromClampedSpeed ==
    ptLast.op = "update" =>
        /\ 0 <= pt.hue /\ pt.hue <= hueRange
        /\ pt.hue = HueOf(ptLast.cvx * ptLast.cvx + ptLast.cvy * ptLast.cvy)

\* ------------------------------------------------------------------------
\* Claims about the ParticleSystem
\* ------------------------------------------------------------------------

Min(a, b) == IF a < b THEN a ELSE b

Max(a, b) == IF a > b THEN a ELSE b

\* C3 as stated: in every state reached by setParticleCount with any integer,
\* reset, resize and update, particles.length equals particleCount.
C3_LengthIsCount == Len(particles) = particleCount

\* C3 amended: as long as every count requested was >= 0, particles.length
\* equals particleCount (checked under SpecAnyCount).
C3_LengthIsCountAmended == ~anyNegative => Len(particles) = particleCount

\* C3 witness: a setParticleCount that shrank a collection of two particles.
C3_Witness ==
    /\ ~anyNegative
    /\ sysLast.op = "setParticleCount"
    /\ sysLast.count = 1
    /\ Len(particles) = 1
    /\ particles[1].history # << >>

\* A particle as the constructor leaves it, with the bounds (w, h).
IsNew(p, w, h) ==
    /\ p.width = w
    /\ p.height = h
    /\ p.vx = 0
    /\ p.vy = 0
    /\ p.history = << >>
    /\ \E r \in RandomValues : p.x = padding + Mul(r, w - padding * 2)
    /\ \E r \in RandomValues : p.y = padding + Mul(r, h - padding * 2)

\* C4: setParticleCount(n) on m particles keeps the first min(m, n) of them
\* as they were, in order, and follows them with exactly max(0, n - m) new
\* particles whose bounds are the simulation's (checked under Spec).
C4_GrowAppendsShrinkTruncates ==
    [][ sysLast'.op = "setParticleCount" /\ sysOps' = sysOps + 1 =>
          LET m == Len(particles)
              n == sysLast'.count
          IN  /\ Len(particles') = Min(m, n) + Max(0, n - m)
              /\ SubSeq(particles', 1, Min(m, n)) = SubSeq(particles, 1, Min(m, n))
              /\ \A i \in (Min(m, n) + 1)..Len(particles') :
                     IsNew(particles'[i], width, height)
       ]_vars

\* C4 witness: a particle that had moved, kept with its history in front of
\* a new one appended by setParticleCount(2) after a resize.
C4_Witness ==
    /\ sysLast.op = "setParticleCount"
    /\ sysLast.count = 2
    /\ Len(particles) = 2
    /\ particles[1].history # << >>
    /\ IsNew(particles[2], width, height)
    /\ width # InitSize.w

\* C5: setParticleCount(n) right after setParticleCount(n) leaves the
\* particles and particleCount as they were (checked under SpecAnyCount).
C5_SetCountIdempotent ==
    [][ (/\ sysLast.op = "setParticleCount"
         /\ sysLast'.op = "setParticleCount"
         /\ sysOps' = sysOps + 1
         /\ sysLast'.count = sysLast.count)
        => particles' = particles /\ particleCount' = particleCount ]_vars

\* C5 witness: a repeated setParticleCount(n) on a collection of particles
\* that have moved.
C5_Witness ==
    /\ sysLast.op = "setParticleCount"
    /\ sysLast.repeated
    /\ Len(particles) > 0
    /\ particles[1].history # << >>

\* C8: the simulation, its FlowField and every live particle hold the same
\* (width, height) in every state.
C8_SharedBounds ==
    /\ flowField.width = width
    /\ flowField.height = height
    /\ \A i \in 1..Len(particles) :
           particles[i].width = width /\ particles[i].height = height

\* C8 witness: two particles advanced by an update after a resize.
C8_Witness ==
    /\ width # InitSize.w
    /\ sysLast.op = "update"
    /\ Len(particles) = 2
    /\ particles[2].history # << >>

\* C9 as stated: the fade rectangle every update renders has alpha
\* 1 - trailAlpha for the trailAlpha current at that update.
C9_FadeAlphaIsCurrent ==
    sysLast.op = "update" => sysLast.rendered = One - trailAlpha

\* ------------------------------------------------------------------------
\* Claims about the FlowField's mode and time
\* ------------------------------------------------------------------------

\* The time speed the specification gives each mode, in 1/10000.
SpecifiedTimeSpeed ==
    [flow |-> 3, magnetic |-> 3, galaxy |-> 1, vortex |-> 5, chaos |-> 10,
     wave |-> 2]

\* C11: from any state, a setMode(mode) with one of the six tags leaves the
\* field's mode equal to that tag and its timeSpeed equal to the mode's
\* constant (flow 0.0003, magnetic 0.0003, galaxy 0.0001, vortex 0.0005,
\* chaos 0.001, wave 0.0002), and leaves time as it was.
C11_SetModeSetsSpeed ==
    [][(sysOps' = sysOps + 1 /\ sysLast'.op = "setMode") =>
          /\ sysLast'.mode \in Modes
          /\ flowField'.mode = sysLast'.mode
          /\ flowField'.timeSpeed = SpecifiedTimeSpeed[sysLast'.mode]
          /\ flowField'.time = flowField.time]_vars

\* A setMode("chaos") after time has advanced at another mode's speed.
C11_Witness ==
    /\ sysLast.op = "setMode"
    /\ sysLast.mode = "chaos"
    /\ flowField.mode = "chaos"
    /\ flowField.time = SpecifiedTimeSpeed["vortex"]

\* C12: an update() adds the current timeSpeed to the field's time exactly
\* once, and the forces of its particles are queried at the advanced time;
\* every other operation leaves time as it was; so time never decreases.
C12_TimeAdvancesOncePerUpdate ==
    [][(sysOps' = sysOps + 1) =>
          /\ sysLast'.op = "update" =>
                /\ flowField'.time = flowField.time + flowField.timeSpeed
                /\ sysLast'.queried = flowField'.time
          /\ sysLast'.op # "update" => flowField'.time = flowField.time
          /\ flowField'.time >= flowField.time]_vars

\* A second update, at the speed of another mode, with particles to steer.
C12_Witness ==
    /\ sysLast.op = "update"
    /\ Len(particles) = 2
    /\ flowField.mode = "vortex"
    /\ flowField.time = SpecifiedTimeSpeed["flow"] + SpecifiedTimeSpeed["vortex"]
    /\ sysLast.queried = flowField.time

\* ------------------------------------------------------------------------
\* Claims about reset and resize
\* ------------------------------------------------------------------------

\* C13: a reset() leaves particles.length and particleCount as they were,
\* leaves every particle with velocity (0, 0), an empty history and stored
\* bounds equal to the simulation's current bounds, and leaves the field's
\* mode, time and pointer state as they were.
C13_ResetKeepsCountAndField ==
    [][(sysOps' = sysOps + 1 /\ sysLast'.op = "reset") =>
          /\ Len(particles') = Len(particles)
          /\ particleCount' = particleCount
          /\ \A i \in 1..Len(particles') :
                /\ particles'[i].vx = 0
                /\ particles'[i].vy = 0
                /\ particles'[i].history = << >>
                /\ particles'[i].width = width'
                /\ particles'[i].height = height'
          /\ flowField'.mode = flowField.mode
          /\ flowField'.time = flowField.time
          /\ flowField'.mouseX = flowField.mouseX
          /\ flowField'.mouseY = flowField.mouseY
          /\ flowField'.mousePressed = flowField.mousePressed]_vars

\* A reset of two particles that an update had set moving on a resized
\* surface.
C13_Witness ==
    /\ sysLast.op = "reset"
    /\ Len(particles) = 2
    /\ flowField.time > 0
    /\ width # InitSize.w

\* C14: a resize(w, h) stores the new bounds in the simulation, the field
\* and every particle, rebuilds the fade overlay and puts the field's
\* pointer position at (w/2, h/2); it leaves every particle's position,
\* velocity and history, the particle count, the speed and trail settings
\* and the field's mode, time, timeSpeed, scale, pointer-pressed flag and
\* noise table as they were.
C14_ResizeChangesOnlyBounds ==
    [][(sysOps' = sysOps + 1 /\ sysLast'.op = "resize") =>
          /\ flowField'.width = width'
          /\ flowField'.height = height'
          /\ flowField'.mouseX = TruncDiv(width', 2)
          /\ flowField'.mouseY = TruncDiv(height', 2)
          /\ Len(particles') = Len(particles)
          /\ \A i \in 1..Len(particles) :
                particles'[i] = [particles[i] EXCEPT !.width = width',
                                                     !.height = height']
          /\ particleCount' = particleCount
          /\ speed' = speed
          /\ trailAlpha' = trailAlpha
          /\ flowField'.mode = flowField.mode
          /\ flowField'.time = flowField.time
          /\ flowField'.timeSpeed = flowField.timeSpeed
          /\ flowField'.scale = flowField.scale
          /\ flowField'.mousePressed = flowField.mousePressed
          /\ flowField'.mouseRadius = flowField.mouseRadius
          /\ flowField'.mouseForce = flowField.mouseForce
          /\ flowField'.perm = flowField.perm]_vars

\* A resize to another size while the pointer is pressed and two particles
\* are moving with a history.
C14_Witness ==
    /\ sysLast.op = "resize"
    /\ width # InitSize.w
    /\ flowField.mousePressed
    /\ Len(particles) = 2
    /\ particles[1].history # << >>
    /\ particles[1].vx # 0

\* ------------------------------------------------------------------------
\* Claims about the boundary handling (checked under SpecParticle)
\* ------------------------------------------------------------------------

\* The particle of the claim's example: at (1, 300) with velocity (-1, 0) on
\* an 800x600 surface.
C15_Example ==
    [Particle_constructor(0, 0, 0, 800 * One, 600 * One)
        EXCEPT !.x = One, !.y = 300 * One, !.vx = -One, !.vy = 0]

\* C15: the boundary handling treats each axis on its own.  A coordinate
\* that is below 2 after the integration becomes 2 and that axis's velocity
\* becomes +0.7 |v|; otherwise a coordinate above bound - 2 becomes
\* bound - 2 and the velocity becomes -0.7 |v|; otherwise coordinate and
\* velocity are left as they are.  The particle at (1, 300) with velocity
\* (-1, 0), force (0, 0) and speed 1 on 800x600 ends at x = 2 with
\* vx = +0.7 and an empty history.
C15_AxesHandledIndependently ==
    /\ ptLast.op = "update" =>
          /\ IF ptLast.mx < margin
             THEN pt.x = margin /\ pt.vx = Mul(Abs(ptLast.cvx), damping)
             ELSE IF ptLast.mx > pt.width - margin
             THEN /\ pt.x = pt.width - margin
                  /\ pt.vx = -Mul(Abs(ptLast.cvx), damping)
             ELSE pt.x = ptLast.mx /\ pt.vx = ptLast.cvx
          /\ IF ptLast.my < margin
             THEN pt.y = margin /\ pt.vy = Mul(Abs(ptLast.cvy), damping)
             ELSE IF ptLast.my > pt.height - margin
             THEN /\ pt.y = pt.height - margin
                  /\ pt.vy = -Mul(Abs(ptLast.cvy), damping)
             ELSE pt.y = ptLast.my /\ pt.vy = ptLast.cvy
    /\ LET after == Particle_update(C15_Example, [x |-> 0, y |-> 0], One)
       IN  /\ after.x = 2 * One
           /\ after.vx = 70
           /\ after.y = 300 * One
           /\ after.vy = 0
           /\ after.history = << >>

\* An update that bounces on the x axis only: x is put on a margin and vx
\* is damped and turned while y and vy go on unchanged, vy not being 0.
C15_Witness ==
    /\ ptLast.op = "update"
    /\ ptLast.mx > pt.width - margin
    /\ ptLast.my >= margin
    /\ ptLast.my <= pt.height - margin
    /\ pt.x = pt.width - margin
    /\ pt.vx < 0
    /\ pt.vy # 0
    /\ pt.y = ptLast.my

\* ------------------------------------------------------------------------
\* Claims about getVector and the noise table
\* ------------------------------------------------------------------------

\* C16: with a mode tag outside the six modes getVector returns a value
\* (it does not raise) and, while the pointer is not pressed, that value is
\* (1, 0), the vector of angle 0, at every point; a setMode with such a tag
\* returns as well and stores the tag.
C16_UnknownModeGivesAngleZero ==
    /\ (ffLast.op = "getVector" /\ flowField.mode \notin Modes
        /\ ~flowField.mousePressed) =>
           ffLast.result = [x |-> One, y |-> 0]
    /\ (ffLast.op = "setMode" /\ ffLast.tag \notin Modes) =>
           flowField.mode = ffLast.tag

\* A query under an unknown tag, pointer not pressed, after an update has
\* added the tag's undefined time speed to time.
C16_Witness ==
    /\ ffLast.op = "getVector"
    /\ flowField.mode \in UnknownModes
    /\ ~flowField.mousePressed
    /\ ~Finite(flowField.time)
    /\ ffLast.x # flowField.mouseX

\* C17: a getVector call leaves every field of the FlowField (mode, scale,
\* time, timeSpeed, pointer state, bounds, noise table) as it was, so a call
\* that repeats the arguments of the call just before it returns the same
\* vector.
C17_GetVectorIsPure ==
    [][(ffOps' = ffOps + 1 /\ ffLast'.op = "getVector") =>
          /\ flowField' = flowField
          /\ ffLast'.again => ffLast'.result = ffLast.result]_vars

\* A query repeated at a point, while the pointer is pressed, under a mode
\* whose angle depends on time, after time has advanced.
C17_Witness ==
    /\ ffLast.op = "getVector"
    /\ ffLast.again
    /\ flowField.mode = "flow"
    /\ flowField.time > 0
    /\ flowField.mousePressed

\* Whether v is a vector of finite components and of length 1, to the 4%
\* that the grid of hundredths and the approximation of sin allow on the
\* square of the length.
IsUnitVector(v) ==
    /\ Finite(v.x)
    /\ Finite(v.y)
    /\ Abs(v.x * v.x + v.y * v.y - One * One) <= 4 * One

\* C18: under each of the six modes, at every point and in every pointer
\* state, getVector returns (cos a, sin a) for a finite angle a: a vector of
\* finite components and of length 1.
C18_UnitVector ==
    (ffLast.op = "getVector" /\ flowField.mode \in Modes) =>
        IsUnitVector(ffLast.result)

\* C19: the noise table has 512 entries, each an integer in 0..255; its
\* first 256 entries hold every value of 0..255 exactly once; entry i + 256
\* equals entry i for i in 0..255.
C19_TableIsShuffle ==
    /\ DOMAIN flowField.perm = 0..511
    /\ \A i \in 0..511 : flowField.perm[i] \in 0..255
    /\ \A v \in 0..255 :
          Cardinality({i \in 0..255 : flowField.perm[i] = v}) = 1
    /\ \A i \in 0..255 : flowField.perm[i + 256] = flowField.perm[i]

\* ------------------------------------------------------------------------
\* Claims about the rendering
\* ------------------------------------------------------------------------

\* C20: an update() strokes a trail line for a particle only when, after
\* its advance, its history is not empty and its new position is less than
\* 50 away from the last history entry, which is its position before the
\* advance; the line joins exactly these two points.
C20_TrailLineOnlyWhenNear ==
    [][(sysOps' = sysOps + 1 /\ sysLast'.op = "update") =>
          /\ Len(sysLast'.lines) = Len(particles')
          /\ \A i \in 1..Len(particles') :
                sysLast'.lines[i] # << >> =>
                   LET now  == particles'[i]
                       was  == [x |-> particles[i].x, y |-> particles[i].y]
                       line == sysLast'.lines[i][1]
                   IN  /\ now.history # << >>
                       /\ now.history[Len(now.history)] = was
                       /\ (now.x - was.x) * (now.x - was.x)
                          + (now.y - was.y) * (now.y - was.y)
                            < (50 * One) * (50 * One)
                       /\ line.from = was
                       /\ line.to = [x |-> now.x, y |-> now.y]]_vars

\* An update that strokes the line of a particle that has moved.
C20_Witness ==
    /\ sysLast.op = "update"
    /\ Len(particles) = 2
    /\ sysLast.lines[2] # << >>
    /\ sysLast.lines[2][1].from # sysLast.lines[2][1].to

\* ------------------------------------------------------------------------
\* Claims about the history (checked under SpecParticle)
\* ------------------------------------------------------------------------

\* C21: after an update that does not bounce, the history is the history
\* before it with the position before the update appended at the end and,
\* when that made 21 entries, without its oldest (first) entry; so the
\* length grows by one per such update up to 20 and the entries stay in
\* the order of the updates.
C21_HistoryAppendsAndEvicts ==
    [][(ptSteps' = ptSteps + 1 /\ ptLast'.op = "update" /\ ~ptLast'.bounced) =>
          LET kept == IF Len(pt.history) = maxHistory
                      THEN SubSeq(pt.history, 2, maxHistory)
                      ELSE pt.history
          IN  /\ pt'.history = kept \o << [x |-> pt.x, y |-> pt.y] >>
              /\ Len(pt'.history) = Min(Len(pt.history) + 1, maxHistory)]_vars

\* An update without a bounce on a full history of a moving particle: the
\* oldest entry has gone and the newest differs from the one before it.
C21_Witness ==
    /\ ptLast.op = "update"
    /\ ~ptLast.bounced
    /\ ptLast.prevLen = maxHistory
    /\ Len(pt.history) = maxHistory
    /\ pt.history[maxHistory] # pt.history[maxHistory - 1]
    /\ pt.history[1] # pt.history[2]

\* ------------------------------------------------------------------------
\* Claims about the noise table and the pointer
\* ------------------------------------------------------------------------

\* C22: the noise table is immutable after construction: no step of the
\* system (update with its getVector queries, setMode, resize,
\* setMousePosition, setMousePressed, setParticleCount, reset, the sliders)
\* changes any entry of perm.
C22_TableImmutable == [][flowField'.perm = flowField.perm]_vars

\* A resize, a setMode and an update with particles have run on a field
\* whose table was drawn with repeats.
C22_Witness ==
    /\ sysOps = MaxOps
    /\ sysLast.op = "update"
    /\ Len(particles) = 2
    /\ width # InitSize.w
    /\ flowField.mode # "flow"
    /\ flowField.perm = initPerlin(RepeatingTable)

\* Whether the pointer of the field f is pressed and the point (x, y) is
\* strictly nearer to it than the pointer radius (lengths to a tenth).
PointerActsAt(f, x, y) ==
    LET dx == TruncDiv(x - f.mouseX, 10)
        dy == TruncDiv(y - f.mouseY, 10)
        r  == f.mouseRadius \div 10
    IN  f.mousePressed /\ dx * dx + dy * dy < r * r

\* The vector of the mode's own angle at (x, y).
OwnVector(f, x, y) ==
    [x |-> Hundredths(Cos(calculateAngle(f, x, y))),
     y |-> Hundredths(Sin(calculateAngle(f, x, y)))]

\* Places of the pointer: the ones the input layer reports and the centres
\* a resize puts it at.
PointerPlaces ==
    MousePositions \cup {[x |-> TruncDiv(s.w, 2), y |-> TruncDiv(s.h, 2)] : s \in Sizes}

C24_TimeFinite == Finite(flowField.time) /\ Finite(flowField.timeSpeed)

\* ------------------------------------------------------------------------
\* noise2D taken alone
\* ------------------------------------------------------------------------

\* Noise coordinates, in 1/10000: 0, 0.5, 228.5, 255.25, 255.9999, -0.75,
\* -256.75, 1000.3, and a coordinate that is not finite.
NoiseCoords ==
    {0, Fine \div 2, 228 * Fine + Fine \div 2, 255 * Fine + Fine \div 4,
     256 * Fine - 1, 0 - (3 * Fine) \div 4, 0 - 256 * Fine - (3 * Fine) \div 4,
     1000 * Fine + (3 * Fine) \div 10, NaN}

\* this.noise2D(x, y) on the field's table
Noise2D ==
    \E x \in NoiseCoords, y \in NoiseCoords :
        /\ noiseLast' = [op |-> "noise2D", x |-> x, y |-> y,
                         reads |-> noise2D_reads(flowField.perm, x, y)]
        /\ UNCHANGED <<ptVars, sysVars, ffLast, ffOps, jsField>>

NextNoise == Noise2D

SpecNoise == InitField /\ [][NextNoise]_vars

\* C25: the legacy FlowField and the core FlowField, constructed with the
\* same bounds and noise table and given the same setMode (any tag),
\* update, resize, setMousePosition and setMousePressed calls, hold the
\* same mode, time, timeSpeed and pointer state after every call, and
\* getVector returns the same angle and vector from both.
C25_ImplementationsAgree ==
    /\ jsField.mode = flowField.mode
    /\ jsField.time = flowField.time
    /\ jsField.timeSpeed = flowField.timeSpeed
    /\ jsField.mouseX = flowField.mouseX
    /\ jsField.mouseY = flowField.mouseY
    /\ jsField.mousePressed = flowField.mousePressed
    /\ ffLast.op = "getVector" =>
          /\ JsAngle(jsField, ffLast.x, ffLast.y)
                = applyMouseInteraction(flowField, ffLast.x, ffLast.y,
                     calculateAngle(flowField, ffLast.x, ffLast.y))
          /\ JsGetVector(jsField, ffLast.x, ffLast.y) = ffLast.result

\* C26: with every table entry in 0..255, every index at which noise2D
\* reads the table (X, X+1, A, A+1, B, B+1, AA, AB, BA, BB) lies in 0..511,
\* whatever the input (x, y).
C26_ReadsInsideTable ==
    (/\ noiseLast.op = "noise2D"
     /\ \A i \in DOMAIN flowField.perm : flowField.perm[i] \in 0..255)
    => \A k \in DOMAIN noiseLast.reads : noiseLast.reads[k] \in 0..511

\* noise2D at x = 228.5, y = -0.75 over the table with perm[228] = 255:
\* Y is 255, A is 510 and the read perm[A + 1] is at the last index, 511.
C26_Witness ==
    /\ noiseLast.op = "noise2D"
    /\ noiseLast.y < 0 /\ Finite(noiseLast.y)
    /\ noiseLast.reads.X = 228
    /\ noiseLast.reads.A = 510
    /\ noiseLast.reads.A1 = 511

====
